---- MODULE Spec2Model ----
(***************************************************************************)
(* Model of cufe_extractor.py: the two-tier CUFE matcher (extract_cufe),   *)
(* the record builder (process_pdf), the SQLite store (create_database,    *)
(* save_to_database) and the batch driver (process_directory).             *)
(*                                                                         *)
(* A text is a sequence of one-character strings.  Offsets are the         *)
(* positions between characters, 0..Len(text), as in Python's re module.   *)
(***************************************************************************)
EXTENDS Integers, Sequences, FiniteSets, TLC

VARIABLES
  \* the matcher applied to one text
  text,        \* the argument of extract_cufe
  cufe,        \* its return value
  mpc,         \* "start" before the call, "done" after it
  \* the file system and the SQLite database
  dirExists,   \* pdf_dir.exists()
  entries,     \* the names in the directory, in enumeration order
  dbFile,      \* the database file exists
  dbTable,     \* the table pdf_cufe exists
  rows,        \* the committed rows of pdf_cufe, in insertion order
  seq,         \* AUTOINCREMENT: the greatest id ever assigned
  \* one invocation of process_directory
  pc,          \* "idle", "process", "save", "done", "returned", "raised"
  conn,        \* "none", "open", "closed"
  pdf_files,   \* the candidate files of the run
  idx,         \* the position of the loop in pdf_files
  data,        \* the record process_pdf returned
  msg,         \* the last message printed for the operator
  error,       \* the exception that left process_directory, or "none"
  \* bookkeeping of the runs
  run,         \* invocations started so far
  faults,      \* failed INSERTs so far
  rows0,       \* rows when the current run started
  dbFile0,     \* dbFile when the current run started
  opened,      \* connections opened by the current run
  closed       \* connections closed by the current run

mvars == <<text, cufe, mpc>>

fsvars == <<dirExists, entries>>

dbvars == <<dbFile, dbTable, rows, seq>>

runvars == <<pc, conn, pdf_files, idx, data, msg, error>>

auxvars == <<run, faults, rows0, dbFile0, opened, closed>>

bvars == <<fsvars, dbvars, runvars, auxvars>>

vars == <<mvars, bvars>>

(***************************************************************************)
(* Characters                                                              *)
(***************************************************************************)
HexDigits ==
  <<"0","1","2","3","4","5","6","7","8","9",
    "a","b","c","d","e","f","A","B","C","D","E","F">>

\* the character class [0-9a-fA-F]
HexChars == {HexDigits[i] : i \in DOMAIN HexDigits}

NL == "\n"

\* \w restricted to the characters the texts are built from
WordChars == HexChars \cup {"g", "_"}

IsHex(c) == c \in HexChars

IsWord(c) == c \in WordChars

\* the value Python's None is modelled by: a sequence that is not a text
None == <<"None">>

NoMatch == -1

\* {95,100}
MinLen == 95
MaxLen == 100

(***************************************************************************)
(* Regular-expression primitives                                           *)
(***************************************************************************)
\* \b at offset pos: exactly one of the two neighbours is a word character
WordBoundary(t, pos) ==
  LET before == pos >= 1 /\ IsWord(t[pos])
      after  == pos < Len(t) /\ IsWord(t[pos + 1])
  IN  before # after

\* \n* : the number of consecutive newlines that start at offset pos
NewlinesAt(t, pos) ==
  CHOOSE k \in 0..(Len(t) - pos) :
    /\ \A i \in 1..k : t[pos + i] = NL
    /\ (pos + k = Len(t) \/ t[pos + k + 1] # NL)

\* [0-9a-fA-F]\n* : the offsets where one iteration that starts at offset pos
\* can end (the character, then none to all of the newlines after it)
IterEnds(t, pos) ==
  IF pos < Len(t) /\ IsHex(t[pos + 1])
    THEN {pos + 1 + j : j \in 0..NewlinesAt(t, pos + 1)}
    ELSE {}

\* ([0-9a-fA-F]\n*){n} : the offsets that n iterations can reach from the
\* offsets in `at' (n iterations are n \div 2 iterations, then the rest)
RECURSIVE Tier1Repeat(_, _, _)
Tier1Repeat(t, at, n) ==
  IF n = 0 \/ at = {} THEN at
  ELSE IF n = 1 THEN UNION {IterEnds(t, p) : p \in at}
  ELSE Tier1Repeat(t, Tier1Repeat(t, at, n \div 2), n - (n \div 2))

\* Tier1Ends without the closing \b
Tier1EndsUnbounded(t, start) ==
  LET least == Tier1Repeat(t, {start}, MinLen)
  IN  UNION {Tier1Repeat(t, least, extra) : extra \in 0..(MaxLen - MinLen)}

\* ([0-9a-fA-F]\n*){95,100}\b : every offset where the pattern can end when
\* it starts at offset start
Tier1Ends(t, start) ==
  LET least == Tier1Repeat(t, {start}, MinLen)
  IN  UNION {{p \in Tier1Repeat(t, least, extra) : WordBoundary(t, p)} :
               extra \in 0..(MaxLen - MinLen)}

\* the greatest element of a non-empty set of offsets
MaxOf(S) == CHOOSE e \in S : \A f \in S : f <= e

MinOf(S) == CHOOSE e \in S : \A f \in S : e <= f

\* The pattern of Tier 1 tried at one start offset.  The quantifiers are
\* greedy: the backtracking search tries one more iteration before it stops,
\* and more newlines before fewer, so of the ends the pattern allows it finds
\* the rightmost first.
Tier1At(t, start) ==
  IF WordBoundary(t, start)
    THEN LET ends == Tier1Ends(t, start)
         IN  IF ends = {} THEN NoMatch ELSE MaxOf(ends)
    ELSE NoMatch

\* [0-9a-fA-F]{n} : the offset n characters of the class reach from `at'
RECURSIVE Tier2Repeat(_, _, _)
Tier2Repeat(t, at, n) ==
  IF n = 0 \/ at = {} THEN at
  ELSE IF n = 1 THEN {p + 1 : p \in {q \in at : q < Len(t) /\ IsHex(t[q + 1])}}
  ELSE Tier2Repeat(t, Tier2Repeat(t, at, n \div 2), n - (n \div 2))

\* [0-9a-fA-F]{95,100} : every offset where the pattern can end
Tier2Ends(t, start) ==
  LET least == Tier2Repeat(t, {start}, MinLen)
  IN  UNION {Tier2Repeat(t, least, extra) : extra \in 0..(MaxLen - MinLen)}

\* Tier2At with a lazy quantifier, {95,100}?
Tier2AtLazy(t, start) ==
  LET ends == Tier2Ends(t, start)
  IN  IF ends = {} THEN NoMatch ELSE MinOf(ends)

\* the pattern of Tier 2 tried at one start offset, greedy
Tier2At(t, start) ==
  LET ends == Tier2Ends(t, start)
  IN  IF ends = {} THEN NoMatch ELSE MaxOf(ends)

\* re.search: the match at the leftmost start offset, <<start, end>>
Tier1Search(t) ==
  IF \E s \in 0..Len(t) : Tier1At(t, s) # NoMatch
    THEN LET s0 == CHOOSE s \in 0..Len(t) :
                     /\ Tier1At(t, s) # NoMatch
                     /\ \A u \in 0..(s - 1) : Tier1At(t, u) = NoMatch
         IN  <<s0, Tier1At(t, s0)>>
    ELSE <<NoMatch, NoMatch>>

Tier2Search(t) ==
  IF \E s \in 0..Len(t) : Tier2At(t, s) # NoMatch
    THEN LET s0 == CHOOSE s \in 0..Len(t) :
                     /\ Tier2At(t, s) # NoMatch
                     /\ \A u \in 0..(s - 1) : Tier2At(t, u) = NoMatch
         IN  <<s0, Tier2At(t, s0)>>
    ELSE <<NoMatch, NoMatch>>

\* Group0 with the start offset taken for the index of the first character
Group0OffByOne(t, m) == SubSeq(t, m[1], m[2])

\* match.group(0)
Group0(t, m) == SubSeq(t, m[1] + 1, m[2])

\* StripNewlines left out
KeepNewlines(s) == s

\* str.replace('\n', '')
StripNewlines(s) == SelectSeq(s, LAMBDA c : c # NL)

\* extract_cufe with the two searches in the other order
extract_cufe_Tier2First(t) ==
  LET m2 == Tier2Search(t)
  IN  IF m2[1] # NoMatch
        THEN Group0(t, m2)
        ELSE LET m1 == Tier1Search(t)
             IN  IF m1[1] # NoMatch THEN StripNewlines(Group0(t, m1)) ELSE None

extract_cufe(t) ==
  LET m1 == Tier1Search(t)
  IN  IF m1[1] # NoMatch
        THEN StripNewlines(Group0(t, m1))
        ELSE LET m2 == Tier2Search(t)
             IN  IF m2[1] # NoMatch THEN Group0(t, m2) ELSE None


(***************************************************************************)
(* Bounds                                                                  *)
(***************************************************************************)
\* seeds 0..MaxSeed of the generated hexadecimal runs
MaxSeed == 1

\* names in the directory
MaxFiles == 2

\* invocations of process_directory against the same directory and database
MaxRuns == 2

\* INSERT statements the database rejects
MaxFaults == 1

(***************************************************************************)
(* Input texts                                                             *)
(***************************************************************************)
HexRun(n, seed) == [i \in 1..n |-> HexDigits[((seed + 7 * (i - 1)) % 22) + 1]]

\* a newline after every character, the last one included
Fragment(s) == [i \in 1..(2 * Len(s)) |-> IF i % 2 = 1 THEN s[(i + 1) \div 2] ELSE NL]

RunLens == {94, 95, 97, 100, 101, 200}

PairLens == {94, 95, 101}

RunsOf(lens, seeds) ==
  {HexRun(n, seed) : n \in lens, seed \in seeds}
    \cup {Fragment(HexRun(n, seed)) : n \in lens, seed \in seeds}

Affixes == {<< >>, <<" ">>, <<"g">>, <<NL>>}

Seps == {<<" ">>, <<"g">>, <<NL>>}

\* one run with something before and after it, or two runs and a separator
Texts ==
  {pre \o r \o post : pre \in Affixes, r \in RunsOf(RunLens, 0..MaxSeed), post \in Affixes}
    \cup UNION {{a \o s \o b : a \in RunsOf(PairLens, {seed}), s \in Seps,
                               b \in RunsOf(PairLens, {seed + 3})} : seed \in 0..MaxSeed}

(***************************************************************************)
(* Files                                                                   *)
(***************************************************************************)
\* a page whose extract_text() raises
PageError == <<"PageError">>

Label == <<"C", "U", "F", "E", ":", " ">>

DirPath == <<"f", "a", "c", "t">>

\* kind: "pdf" a file PyPDF2 opens, "corrupt" one PdfReader rejects,
\* "dangling" a symbolic link whose target is missing
Catalog ==
  { [name |-> <<"a", ".", "p", "d", "f">>, kind |-> "pdf", size |-> 2048,
     pages |-> << Label \o HexRun(99, 2) \o <<NL, "g">>, << >> >>],
    [name |-> <<"b", ".", "P", "D", "F">>, kind |-> "pdf", size |-> 512,
     pages |-> << <<"g", NL>> \o Fragment(HexRun(95, 4)) >>],
    [name |-> <<"c", ".", "P", "d", "f">>, kind |-> "pdf", size |-> 3145728,
     pages |-> << HexRun(50, 1), HexRun(150, 7) \o <<"g">> >>],
    [name |-> <<"d", ".", "p", "d", "f">>, kind |-> "corrupt", size |-> 1152,
     pages |-> << >>],
    [name |-> <<"e", ".", "p", "d", "f">>, kind |-> "pdf", size |-> 1408,
     pages |-> << HexRun(96, 6), PageError >>],
    [name |-> <<"l", ".", "p", "d", "f">>, kind |-> "dangling", size |-> 0,
     pages |-> << >>],
    [name |-> <<"n", ".", "t", "x", "t">>, kind |-> "pdf", size |-> 1048575,
     pages |-> << HexRun(95, 0) >>] }

Names == {f.name : f \in Catalog}

FileOf(name) == CHOOSE f \in Catalog : f.name = name

\* the directory listings: distinct names in any order
Listings ==
  UNION {{l \in [1..n -> Names] : \A i, j \in 1..n : i # j => l[i] # l[j]} : n \in 0..MaxFiles}

\* str(pdf_file)
PathOf(name) == DirPath \o <<"/">> \o name

\* os.path.basename
basename(path) ==
  LET slashes == {i \in 1..Len(path) : path[i] = "/"}
  IN  IF slashes = {} THEN path ELSE SubSeq(path, MaxOf(slashes) + 1, Len(path))

\* round(x * 100) of the exact quotient x = num / den, ties to the even
\* neighbour as the format specification .2f does
Hundredths(num, den) ==
  LET q == (num * 100) \div den
      r == (num * 100) % den
  IN  IF 2 * r > den \/ (2 * r = den /\ q % 2 = 1) THEN q + 1 ELSE q

\* f"{x:.2f} <unit>" as <<whole part, two decimals, unit>>
Format2f(num, den, unit) ==
  <<Hundredths(num, den) \div 100, Hundredths(num, den) % 100, unit>>

\* the string get_file_size returns for a file of size_bytes bytes
get_file_size(size_bytes) ==
  IF size_bytes < 1024 THEN <<size_bytes, "B">>
  ELSE IF size_bytes < 1024 * 1024 THEN Format2f(size_bytes, 1024, "KB")
  ELSE Format2f(size_bytes, 1024 * 1024, "MB")

\* glob("*.[pP][dD][fF]") on one name
IsCandidate(name) ==
  /\ Len(name) >= 4
  /\ name[Len(name) - 3] = "."
  /\ name[Len(name) - 2] \in {"p", "P"}
  /\ name[Len(name) - 1] \in {"d", "D"}
  /\ name[Len(name)] \in {"f", "F"}

\* the loop over pdf_reader.pages: full_text += text + "\n" for every page
\* whose text is not empty
RECURSIVE FullText(_)
FullText(pages) ==
  IF pages = << >> THEN << >>
  ELSE LET before == FullText(SubSeq(pages, 1, Len(pages) - 1))
           page   == pages[Len(pages)]
       IN  IF page # << >> THEN before \o page \o <<NL>> ELSE before

\* PdfReader or extract_text raises inside the try block: line 93 prints
Unreadable(f) == f.kind # "pdf" \/ \E i \in 1..Len(f.pages) : f.pages[i] = PageError

\* process_pdf for a file whose size os.path.getsize can read
process_pdf(f) ==
  LET result  == [nombre_archivo |-> basename(PathOf(f.name)),
                  numero_paginas |-> 0,
                  cufe           |-> None,
                  peso_archivo   |-> get_file_size(f.size)]
      counted == [result EXCEPT !.numero_paginas = Len(f.pages)]
  IN  IF f.kind # "pdf" THEN result
      ELSE IF Unreadable(f) THEN counted
      ELSE [counted EXCEPT !.cufe = extract_cufe(FullText(f.pages))]

(***************************************************************************)
(* The batch driver                                                        *)
(***************************************************************************)
NoData == [nombre_archivo |-> << >>, numero_paginas |-> 0, cufe |-> None,
           peso_archivo |-> << >>]

\* a database left by an earlier use of the program
PriorRows ==
  << [id |-> 1, nombre_archivo |-> <<"z", ".", "p", "d", "f">>, numero_paginas |-> 3,
      cufe |-> HexRun(98, 9), peso_archivo |-> <<2, 0, "KB">>] >>

Ended == {"idle", "done", "returned", "raised"}

\* what a new invocation starts from
Begin ==
  /\ pc \in Ended
  /\ run < MaxRuns
  /\ run' = run + 1
  /\ rows0' = rows
  /\ dbFile0' = dbFile
  /\ error' = "none"
  /\ data' = NoData
  /\ UNCHANGED <<mvars, fsvars, faults>>

\* lines 119-121: the directory does not exist
RunNoDirectory ==
  /\ Begin
  /\ ~dirExists
  /\ msg' = "no existe"
  /\ pc' = "returned"
  /\ pdf_files' = << >>
  /\ idx' = 0
  /\ conn' = "none"
  /\ opened' = 0
  /\ closed' = 0
  /\ UNCHANGED dbvars

\* RunNoPdf with create_database called before the candidates are looked for
RunNoPdfAfterCreate ==
  /\ Begin
  /\ dirExists
  /\ SelectSeq(entries, IsCandidate) = << >>
  /\ msg' = "no se encontraron"
  /\ pc' = "returned"
  /\ pdf_files' = << >>
  /\ idx' = 0
  /\ conn' = "open"
  /\ opened' = 1
  /\ closed' = 0
  /\ dbFile' = TRUE
  /\ dbTable' = TRUE
  /\ UNCHANGED <<rows, seq>>

\* lines 124-128: no name matches the pattern
RunNoPdf ==
  /\ Begin
  /\ dirExists
  /\ SelectSeq(entries, IsCandidate) = << >>
  /\ msg' = "no se encontraron"
  /\ pc' = "returned"
  /\ pdf_files' = << >>
  /\ idx' = 0
  /\ conn' = "none"
  /\ opened' = 0
  /\ closed' = 0
  /\ UNCHANGED dbvars

\* lines 124-133: candidates found, create_database opens the connection
\* and makes sure the table exists
RunOpen ==
  /\ Begin
  /\ dirExists
  /\ SelectSeq(entries, IsCandidate) # << >>
  /\ pdf_files' = SelectSeq(entries, IsCandidate)
  /\ msg' = "encontrados"
  /\ conn' = "open"
  /\ opened' = 1
  /\ closed' = 0
  /\ dbFile' = TRUE
  /\ dbTable' = TRUE
  /\ idx' = 1
  /\ pc' = "process"
  /\ UNCHANGED <<rows, seq>>

\* line 137: process_pdf returns a record
ProcessPdf ==
  /\ pc = "process"
  /\ idx <= Len(pdf_files)
  /\ FileOf(pdf_files[idx]).kind # "dangling"
  /\ data' = process_pdf(FileOf(pdf_files[idx]))
  /\ msg' = IF Unreadable(FileOf(pdf_files[idx])) THEN "Error procesando" ELSE "procesando"
  /\ pc' = "save"
  /\ UNCHANGED <<mvars, fsvars, dbvars, auxvars, conn, pdf_files, idx, error>>

\* line 76: os.path.getsize raises before the try block is entered; the
\* exception leaves process_pdf and process_directory
ProcessPdfRaises ==
  /\ pc = "process"
  /\ idx <= Len(pdf_files)
  /\ FileOf(pdf_files[idx]).kind = "dangling"
  /\ error' = "FileNotFoundError"
  /\ msg' = "procesando"
  /\ pc' = "raised"
  /\ UNCHANGED <<mvars, fsvars, dbvars, auxvars, conn, pdf_files, idx, data>>

\* the row INSERT adds: the id is one more than the greatest ever assigned
NewRow(d, id) ==
  [id |-> id, nombre_archivo |-> d.nombre_archivo, numero_paginas |-> d.numero_paginas,
   cufe |-> d.cufe, peso_archivo |-> d.peso_archivo]

\* line 138 and lines 140-146: save_to_database inserts and commits, the
\* loop moves to the next file
SaveToDatabase ==
  /\ pc = "save"
  /\ rows' = Append(rows, NewRow(data, seq + 1))
  /\ seq' = seq + 1
  /\ idx' = idx + 1
  /\ msg' = IF data.cufe # None THEN "CUFE" ELSE "No encontrado"
  /\ pc' = "process"
  /\ UNCHANGED <<mvars, fsvars, auxvars, dbFile, dbTable, conn, pdf_files, data, error>>

\* line 102: cursor.execute raises (database locked or read-only); the
\* exception leaves save_to_database and process_directory
SaveRaises ==
  /\ pc = "save"
  /\ faults < MaxFaults
  /\ faults' = faults + 1
  /\ error' = "OperationalError"
  /\ pc' = "raised"
  /\ UNCHANGED <<mvars, fsvars, dbvars, conn, pdf_files, idx, data, msg,
                 run, rows0, dbFile0, opened, closed>>

\* lines 148-150: the loop is over
RunClose ==
  /\ pc = "process"
  /\ idx > Len(pdf_files)
  /\ conn' = "closed"
  /\ closed' = closed + 1
  /\ msg' = "completado"
  /\ pc' = "done"
  /\ UNCHANGED <<mvars, fsvars, dbvars, pdf_files, idx, data, error,
                 run, faults, rows0, dbFile0, opened>>

Init ==
  /\ text = << >> /\ cufe = None /\ mpc = "idle"
  /\ dirExists \in BOOLEAN
  /\ entries \in Listings
  /\ (~dirExists => entries = << >>)
  /\ dbFile \in BOOLEAN
  /\ dbTable = dbFile
  /\ rows = IF dbFile THEN PriorRows ELSE << >>
  /\ seq = Len(rows)
  /\ pc = "idle" /\ conn = "none" /\ pdf_files = << >> /\ idx = 0
  /\ data = NoData /\ msg = "" /\ error = "none"
  /\ run = 0 /\ faults = 0 /\ rows0 = rows /\ dbFile0 = dbFile
  /\ opened = 0 /\ closed = 0

Next ==
  \/ RunNoDirectory
  \/ RunNoPdf
  \/ RunOpen
  \/ ProcessPdf
  \/ ProcessPdfRaises
  \/ SaveToDatabase
  \/ SaveRaises
  \/ RunClose

Spec == Init /\ [][Next]_vars

(***************************************************************************)
(* The matcher on its own                                                  *)
(***************************************************************************)
MInit ==
  /\ text \in Texts /\ cufe = None /\ mpc = "start"
  /\ dirExists = FALSE /\ entries = << >>
  /\ dbFile = FALSE /\ dbTable = FALSE /\ rows = << >> /\ seq = 0
  /\ pc = "idle" /\ conn = "none" /\ pdf_files = << >> /\ idx = 0
  /\ data = NoData /\ msg = "" /\ error = "none"
  /\ run = 0 /\ faults = 0 /\ rows0 = << >> /\ dbFile0 = FALSE
  /\ opened = 0 /\ closed = 0

\* extract_cufe(text)
Extract ==
  /\ mpc = "start"
  /\ cufe' = extract_cufe(text)
  /\ mpc' = "done"
  /\ UNCHANGED <<text, bvars>>

MNext == Extract

MatcherSpec == MInit /\ [][MNext]_vars

(***************************************************************************)
(* Properties                                                              *)
(***************************************************************************)
AllHex(t) == \A i \in 1..Len(t) : t[i] \in HexChars

\* t is n hexadecimal characters, each followed by one newline
IsFragmented(t, n) ==
  /\ Len(t) = 2 * n
  /\ \A i \in 1..n : t[2 * i - 1] \in HexChars /\ t[2 * i] = NL

\* the hexadecimal characters of a fragmented text
Defragmented(t) == [i \in 1..(Len(t) \div 2) |-> t[2 * i - 1]]

\* C1 as the specification states it: a text of 94 or of 101 hexadecimal
\* characters and nothing else yields no identifier.
C1_OnlyHex94Or101IsAbsent ==
  (mpc = "done" /\ AllHex(text) /\ Len(text) \in {94, 101}) => cufe = None

\* C1 amended: a text of 94 hexadecimal characters yields no identifier; for
\* a text of 101 hexadecimal characters Tier 1 has no match and the result is
\* the first 100 characters of the text, which Tier 2 matches.
C1_Amended ==
  (mpc = "done" /\ AllHex(text)) =>
    /\ Len(text) = 94 => cufe = None
    /\ Len(text) = 101 =>
         Tier1Search(text)[1] = NoMatch /\ cufe = SubSeq(text, 1, 100)

C1_Witness ==
  mpc = "done" /\ AllHex(text) /\ Len(text) = 101 /\ cufe # None /\ Len(cufe) = 100

\* C2 as the specification states it: a text that is one run of 200
\* hexadecimal characters yields the first 95 characters of the run.
C2_Run200YieldsFirst95 ==
  (mpc = "done" /\ AllHex(text) /\ Len(text) = 200) => cufe = SubSeq(text, 1, 95)

\* C2 amended: for a text that is one run of 200 hexadecimal characters
\* Tier 1 has no match and the result is the first 100 characters of the run.
C2_Amended ==
  (mpc = "done" /\ AllHex(text) /\ Len(text) = 200) =>
    Tier1Search(text)[1] = NoMatch /\ cufe = SubSeq(text, 1, 100)

C2_Witness ==
  mpc = "done" /\ AllHex(text) /\ Len(text) = 200 /\ cufe # None /\ Len(cufe) = 100

\* C3: for an identifier of 95 hexadecimal characters with a newline after
\* every character, the last included, the result is the identifier itself
\* and holds no newline.
C3_RoundTrip ==
  (mpc = "done" /\ IsFragmented(text, 95)) =>
    /\ cufe = Defragmented(text)
    /\ \A i \in 1..Len(cufe) : cufe[i] # NL

C3_Witness ==
  mpc = "done" /\ IsFragmented(text, 95) /\ cufe # None /\ Len(cufe) = 95

\* C8: a text of 101 or more hexadecimal characters, each followed by a
\* newline, yields no identifier.
C8_LongFragmentedRunIsAbsent ==
  (mpc = "done" /\ \E n \in 101..Len(text) : IsFragmented(text, n)) => cufe = None

\* the offsets of the hexadecimal characters of t, ascending
HexOffsets(t) == SelectSeq([i \in 1..Len(t) |-> i], LAMBDA i : t[i] \in HexChars)

\* the hexadecimal characters number m to m + k - 1 of t, whose offsets are
\* in H, are a Tier 1 match: only newlines lie between them, a word boundary
\* precedes the first, and one follows the last or newlines after the last
IsTier1Match(t, H, m, k) ==
  /\ m + k - 1 <= Len(H)
  /\ WordBoundary(t, H[m] - 1)
  /\ \A i \in H[m]..H[m + k - 1] : t[i] \in HexChars \cup {NL}
  /\ \E e \in H[m + k - 1]..(IF m + k <= Len(H) THEN H[m + k] - 1 ELSE Len(t)) :
       /\ \A i \in (H[m + k - 1] + 1)..e : t[i] = NL
       /\ WordBoundary(t, e)

\* the hexadecimal characters, by number, where a Tier 1 match starts
Tier1Starts(t, H) ==
  {m \in 1..Len(H) : \E k \in 95..100 : IsTier1Match(t, H, m, k)}

\* the offsets where 95 hexadecimal characters in a row start
Tier2Starts(t) ==
  {s \in 0..(Len(t) - 95) : \A i \in 1..95 : t[s + i] \in HexChars}

\* C10: when Tier 1 has a match somewhere in the text the result is the
\* leftmost Tier 1 match without its newlines, wherever the runs only Tier 2
\* matches are; otherwise it is the leftmost run of 95 to 100 hexadecimal
\* characters in a row, as it stands, or absent when there is none.
C10_TierPrecedence ==
  mpc = "done" =>
    LET H  == HexOffsets(text)
        S1 == Tier1Starts(text, H)
        S2 == Tier2Starts(text)
    IN  IF S1 # {}
          THEN \E k \in 95..100 :
                 /\ IsTier1Match(text, H, MinOf(S1), k)
                 /\ cufe = [i \in 1..k |-> text[H[MinOf(S1) + i - 1]]]
          ELSE IF S2 # {}
            THEN \E n \in 95..100 : cufe = SubSeq(text, MinOf(S2) + 1, MinOf(S2) + n)
            ELSE cufe = None

\* a run that only Tier 2 matches starts before the leftmost Tier 1 match
C10_Witness ==
  /\ mpc = "done"
  /\ LET H  == HexOffsets(text)
         S1 == Tier1Starts(text, H)
         S2 == Tier2Starts(text)
     IN  S1 # {} /\ S2 # {} /\ MinOf(S2) < H[MinOf(S1)] - 1 /\ cufe # None

\* an identifier the data model allows
ValidIdentifier(c) ==
  c = None \/ (Len(c) \in 95..100 /\ \A i \in 1..Len(c) : c[i] \in HexChars)

\* C6: the identifier of the record process_pdf built and of every row of
\* the table is absent or 95 to 100 hexadecimal characters without a newline.
C6_IdentifierInvariant ==
  /\ ValidIdentifier(data.cufe)
  /\ \A i \in 1..Len(rows) : ValidIdentifier(rows[i].cufe)

\* rows whose identifiers Tier 1 and Tier 2 produced are in the table
C6_Witness ==
  \E i, j \in 1..Len(rows) :
    /\ rows[i].nombre_archivo = <<"b", ".", "P", "D", "F">> /\ Len(rows[i].cufe) = 95
    /\ rows[j].nombre_archivo = <<"c", ".", "P", "d", "f">> /\ Len(rows[j].cufe) = 100

\* the name ends in .pdf, whatever the case of the letters
EndsInPdf(name) ==
  /\ Len(name) >= 4
  /\ SubSeq(name, Len(name) - 3, Len(name)) \in
       {<<".", p, d, f>> : p \in {"p", "P"}, d \in {"d", "D"}, f \in {"f", "F"}}

NoCandidate == ~dirExists \/ \A i \in 1..Len(entries) : ~EndsInPdf(entries[i])

\* C9: when the directory does not exist or holds no name that ends in .pdf,
\* a run prints a message and returns; it opens no connection, creates
\* neither the database nor its table and leaves the rows as they were.
C9_ShortCircuit ==
  (NoCandidate /\ pc # "idle") =>
    /\ pc = "returned"
    /\ msg \in {"no existe", "no se encontraron"}
    /\ opened = 0 /\ conn = "none"
    /\ dbFile = dbFile0 /\ dbTable = dbFile0
    /\ rows = rows0

\* a directory with names, none a candidate, and no database before or after
C9_Witness ==
  pc = "returned" /\ dirExists /\ entries # << >> /\ ~dbFile /\ msg = "no se encontraron"

\* the run is over, by return or by exception
RunOver == pc \in {"done", "returned", "raised"}

\* C4: no failure of a file leaves process_pdf; when the run is over every
\* candidate file has its row, in enumeration order, and the row of a file
\* that could not be read has no identifier.
C4_FileFailureIsolated ==
  /\ error # "FileNotFoundError"
  /\ (RunOver /\ error = "none") =>
       /\ Len(rows) = Len(rows0) + Len(pdf_files)
       /\ \A i \in 1..Len(pdf_files) :
            /\ rows[Len(rows0) + i].nombre_archivo = pdf_files[i]
            /\ FileOf(pdf_files[i]).kind # "pdf" => rows[Len(rows0) + i].cufe = None

\* C5: when a run is over the rows that were there are unchanged, the run
\* has added one row for each candidate file, and the ids of the new rows
\* are greater than the ids that were there.
C5_AppendOnly ==
  RunOver =>
    /\ Len(rows) = Len(rows0) + Len(pdf_files)
    /\ SubSeq(rows, 1, Len(rows0)) = rows0
    /\ \A i \in (Len(rows0) + 1)..Len(rows) : \A j \in 1..Len(rows0) :
         rows[i].id > rows0[j].id

\* C7: a run that found candidates opens one connection before the first
\* file, has every record committed before the next file, and has closed the
\* connection once when it is over, however it ended.
C7_ConnectionLifecycle ==
  /\ pc \in {"process", "save"} =>
       /\ opened = 1 /\ closed = 0 /\ conn = "open"
       /\ Len(rows) = Len(rows0) + idx - 1
  /\ pc \in {"done", "raised"} =>
       opened = 1 /\ closed = 1 /\ conn = "closed"
====
